---------------------------- MODULE Spec2Model ----------------------------
(***************************************************************************)
(* Project Context Scanner (src/extension.js): the scan session state      *)
(* (isScanning, scanDebounceTimer, fileWatcher), the debounced change      *)
(* notifications, and the directory walk of analyzeProject/scanDirectory   *)
(* with its exclusion matcher shouldIgnore.                                *)
(*                                                                         *)
(* Strings (paths, patterns) are sequences of one-character strings, so    *)
(* that startsWith / endsWith / includes are computed as the code does.    *)
(***************************************************************************)
EXTENDS Integers, Sequences, FiniteSets, TLC

(***************************************************************************)
(* Bounds of the model.                                                    *)
(***************************************************************************)
\* Nodes (files and directories) below the root, walk specification.
MaxNodes == 4
\* Nodes below the root, session specification.
SessionNodes == 1
\* The configured maxFiles ranges over 1..MaxFilesLimit.
MaxFilesLimit == 3
\* Slots for invocations of scanProjectContext that are past the guard.
MaxScans == 2

\* setTimeout(..., 2000): the quiet interval, in seconds.
DebounceDelay == 2

\* The default maximum file size, in bytes.
MAX_FILE_SIZE == 1000000

(***************************************************************************)
(* String helpers (String.prototype.startsWith, endsWith, includes, trim). *)
(***************************************************************************)
StartsWith(s, p) == Len(p) <= Len(s) /\ SubSeq(s, 1, Len(p)) = p

EndsWith(s, p) == Len(p) <= Len(s) /\ SubSeq(s, Len(s) - Len(p) + 1, Len(s)) = p

Includes(s, p) == \E i \in 1..(Len(s) - Len(p) + 1) : SubSeq(s, i, i + Len(p) - 1) = p

IsSpace(c) == c \in {" ", "\t"}

RECURSIVE TrimStart(_)
TrimStart(s) == IF s # <<>> /\ IsSpace(Head(s)) THEN TrimStart(Tail(s)) ELSE s

RECURSIVE TrimEnd(_)
TrimEnd(s) ==
    IF s # <<>> /\ IsSpace(s[Len(s)]) THEN TrimEnd(SubSeq(s, 1, Len(s) - 1)) ELSE s

Trim(s) == TrimEnd(TrimStart(s))

\* filePath.replace(/\\/g, '/')
NormalizePath(s) == [i \in 1..Len(s) |-> IF s[i] = "\\" THEN "/" ELSE s[i]]

\* path.join(relativePath, entry.name) with relativePath = '' at the root
PathJoin(rel, name) == IF rel = <<>> THEN name ELSE rel \o <<"/">> \o name

(***************************************************************************)
(* micromatch.isMatch(path, pattern): glob semantics of the library the    *)
(* code calls (literal characters, ?, * within one segment, ** across      *)
(* segments, no match of a leading dot by a wildcard).                     *)
(***************************************************************************)
AtSegmentStart(s, j) == j = 1 \/ s[j - 1] = "/"

\* No segment of s[j..k-1] (j at a segment start) begins with a dot.
NoDotSegment(s, j, k) ==
    \A m \in j..(k - 1) : (s[m] = "." => ~AtSegmentStart(s, m))

RECURSIVE GlobAt(_, _, _, _)
GlobStar(p, i, s, j) ==
    /\ (AtSegmentStart(p, i - 1) => (j <= Len(s) /\ s[j] # "."))
    /\ \E k \in j..(Len(s) + 1) :
          /\ \A m \in j..(k - 1) : s[m] # "/"
          /\ GlobAt(p, i, s, k)

GlobAt(p, i, s, j) ==
    IF i > Len(p) THEN j > Len(s)
    ELSE IF p[i] = "*" /\ i < Len(p) /\ p[i + 1] = "*"
    THEN IF AtSegmentStart(p, i) /\ (i + 1 = Len(p) \/ p[i + 2] = "/")
         THEN IF i + 1 = Len(p)
              THEN j <= Len(s) /\ NoDotSegment(s, j, Len(s) + 1)
              ELSE \/ GlobAt(p, i + 3, s, j)
                   \/ \E k \in j..Len(s) :
                         /\ s[k] = "/"
                         /\ NoDotSegment(s, j, k)
                         /\ GlobAt(p, i + 3, s, k + 1)
         ELSE GlobStar(p, i + 2, s, j)
    ELSE IF p[i] = "*" THEN GlobStar(p, i + 1, s, j)
    ELSE IF p[i] = "?"
    THEN /\ j <= Len(s)
         /\ s[j] # "/"
         /\ ~(s[j] = "." /\ AtSegmentStart(s, j))
         /\ GlobAt(p, i + 1, s, j + 1)
    ELSE j <= Len(s) /\ s[j] = p[i] /\ GlobAt(p, i + 1, s, j + 1)

MicromatchIsMatch(path, pattern) == GlobAt(pattern, 1, path, 1)

\* micromatch throws on a pattern that is not a non-empty string.
MicromatchThrows(pattern) == pattern = <<>>

(***************************************************************************)
(* shouldIgnore(filePath, excludePatterns, isJavaProject)                  *)
(***************************************************************************)
DS_STORE == <<".", "D", "S", "_", "S", "t", "o", "r", "e">>
TARGET == <<"t", "a", "r", "g", "e", "t">>

\* The fallback tier, for one trimmed pattern.
FallbackMatch(path, tp) ==
    \/ StartsWith(tp, <<"*">>) /\ EndsWith(path, Tail(tp))
    \/ IF EndsWith(tp, <<"*">>)
       THEN LET basePattern == SubSeq(tp, 1, Len(tp) - 1)
            IN  StartsWith(path, basePattern) \/ Includes(path, <<"/">> \o basePattern)
       ELSE IF EndsWith(tp, <<"/">>)
       THEN LET dirPattern == SubSeq(tp, 1, Len(tp) - 1)
            IN  \/ path = dirPattern
                \/ StartsWith(path, dirPattern \o <<"/">>)
                \/ Includes(path, <<"/">> \o dirPattern \o <<"/">>)
       ELSE IF path = tp THEN TRUE
       ELSE Includes(path, <<"/">> \o tp) \/ StartsWith(path, tp \o <<"/">>)

\* Mutant of PatternMatches: a rule the glob evaluator rejects is skipped.
PatternMatches_RejectedSkipped(path, pattern, mm) ==
    IF pattern = <<>> THEN FALSE
    ELSE LET tp == Trim(pattern)
         IN  IF mm
             THEN ~MicromatchThrows(tp) /\ MicromatchIsMatch(path, tp)
             ELSE FallbackMatch(path, tp)

\* One iteration of the loop over excludePatterns: does this pattern return true?
PatternMatches(path, pattern, mm) ==
    IF pattern = <<>> THEN FALSE
    ELSE LET tp == Trim(pattern)
         IN  IF mm /\ ~MicromatchThrows(tp)
             THEN MicromatchIsMatch(path, tp)
             ELSE FallbackMatch(path, tp)

\* Mutant of MatchFrom: only the rule at the current position is consulted.
MatchFrom_FirstRuleOnly(path, patterns, i, mm) ==
    i <= Len(patterns) /\ PatternMatches(path, patterns[i], mm)

RECURSIVE MatchFrom(_, _, _, _)
MatchFrom(path, patterns, i, mm) ==
    IF i > Len(patterns) THEN FALSE
    ELSE IF PatternMatches(path, patterns[i], mm) THEN TRUE
    ELSE MatchFrom(path, patterns, i + 1, mm)

ShouldIgnoreWith(filePath, excludePatterns, isJavaProject, mm) ==
    LET normalizedPath == NormalizePath(filePath)
    IN  IF EndsWith(normalizedPath, DS_STORE)
           \/ Includes(normalizedPath, <<"/">> \o DS_STORE)
        THEN TRUE
        ELSE IF isJavaProject
                /\ (\/ StartsWith(normalizedPath, TARGET \o <<"/">>)
                    \/ normalizedPath = TARGET
                    \/ Includes(normalizedPath, <<"/">> \o TARGET \o <<"/">>))
        THEN TRUE
        ELSE MatchFrom(normalizedPath, excludePatterns, 1, mm)

(***************************************************************************)
(* The scanned directory tree.  An entry is what readdir (withFileTypes),  *)
(* stat and readFile report for it: its name, whether it is a directory,   *)
(* whether stat succeeds and the size it reports, whether readFile         *)
(* succeeds, and for a directory whether readdir succeeds and what it      *)
(* lists (in enumeration order).                                           *)
(***************************************************************************)
FileEntry(ok, sz, r) ==
    [name |-> <<>>, isDir |-> FALSE, statOk |-> ok, size |-> sz, readable |-> r,
     listable |-> FALSE, children |-> <<>>]

DirEntry(l, ch) ==
    [name |-> <<>>, isDir |-> TRUE, statOk |-> TRUE, size |-> 0, readable |-> FALSE,
     listable |-> l, children |-> ch]

\* Sizes at the limit and just above it.
FileSizes == {MAX_FILE_SIZE, MAX_FILE_SIZE + 1}

\* A file whose stat fails, readable and unreadable files within the size limit,
\* and files above it (which are never read, so their readability is not varied).
FileVariants ==
    {FileEntry(FALSE, MAX_FILE_SIZE, TRUE)}
        \cup {FileEntry(TRUE, MAX_FILE_SIZE, r) : r \in BOOLEAN}
        \cup {FileEntry(TRUE, sz, TRUE) : sz \in FileSizes \ {MAX_FILE_SIZE}}

LeafVariants == FileVariants \cup {DirEntry(TRUE, <<>>), DirEntry(FALSE, <<>>)}

\* Entry names: the i-th entry of a directory listing is named by the i-th letter.
NameChars == <<"a", "b", "c", "d", "e", "f", "g", "h">>

NameEntry(t, i) == [t EXCEPT !.name = <<NameChars[i]>>]

\* ForestsExact(n, i): the directory listings with exactly n nodes in all whose
\* entries are named from the i-th letter on; ForestsFrom(n, i, k) those whose
\* first entry has at least k nodes; TreesExact(k) the entries of k nodes.
RECURSIVE ForestsExact(_, _), ForestsFrom(_, _, _)
TreesExact(k) ==
    IF k = 1 THEN LeafVariants
    ELSE {DirEntry(TRUE, ch) : ch \in ForestsExact(k - 1, 1)}

ForestsFrom(n, i, k) ==
    LET first == {<<NameEntry(t, i)>> \o f :
                     t \in TreesExact(k), f \in ForestsExact(n - k, i + 1)}
    IN  IF k = n THEN first ELSE first \cup ForestsFrom(n, i, k + 1)

ForestsExact(n, i) == IF n = 0 THEN {<<>>} ELSE ForestsFrom(n, i, 1)

\* The root directories with at most n nodes below them, or an unreadable root.
RECURSIVE Roots(_)
Roots(n) ==
    IF n = 0 THEN {DirEntry(FALSE, <<>>), DirEntry(TRUE, <<>>)}
    ELSE Roots(n - 1) \cup {DirEntry(TRUE, f) : f \in ForestsExact(n, 1)}

(***************************************************************************)
(* Configuration (vscode.workspace.getConfiguration), read by              *)
(* analyzeProject; gitignore is the text of <root>/.gitignore as lines, or *)
(* NoFile when it cannot be read.                                          *)
(***************************************************************************)
NoFile == <<"ENOENT">>
OutputName == <<"o">>
PatB == <<"b">>
GitignoreText == << <<"#", "c">>, <<" ", "c", " ">>, <<>> >>

Configs ==
    [maxFileSize : {MAX_FILE_SIZE},
     maxFiles : 1..MaxFilesLimit,
     ignorePatterns : {<<>>},
     excludePatterns : {<<>>, <<PatB>>},
     useGitignore : {FALSE},
     gitignore : {GitignoreText},
     useVSCodeExclude : {FALSE},
     vsCodeExcludes : {<<>>},
     outputFile : {OutputName}]

(***************************************************************************)
(* State.                                                                  *)
(***************************************************************************)
VARIABLES
    workspaceFolders,   \* TRUE iff a workspace folder is open
    config,             \* the projectContextScanner settings
    micromatch,         \* TRUE iff require('micromatch') succeeded
    tree,               \* the workspace folder on disk (the root directory)
    autoScan,           \* the autoScan setting
    active,             \* the extension is activated (commands registered)
    fileWatcher,        \* TRUE iff fileWatcher holds a live watcher (else null)
    isScanning,         \* the in-progress guard
    scanDebounceTimer,  \* the handle kept by debounceScan (0 = null)
    timers,             \* the runtime's pending timeouts
    scans,              \* invocations of scanProjectContext past the guard
    message,            \* the last notification shown to the user
    artifact,           \* the result last written to the output file
    sinceChange,        \* seconds since the last debounceScan (history; it
                        \* saturates at DebounceDelay + 1)
    extraction,         \* a call of extractDependencies: its arguments and,
                        \* once it has returned, its result
    outputEvent         \* the file system has a create/change event of the
                        \* output file, written by a scan, to deliver to the
                        \* watcher

vars ==
    <<workspaceFolders, config, micromatch, tree, autoScan, active, fileWatcher,
      isScanning, scanDebounceTimer, timers, scans, message, artifact, sinceChange,
      extraction, outputEvent>>

\* Maximum number of timeouts pending at once in the runtime.
MaxTimers == 3

ScanIds == 1..MaxScans
TimerIds == 1..MaxTimers

NoArtifact == [written |-> FALSE, files |-> <<>>, fileCount |-> 0, excludedPatterns |-> <<>>]

IdleScan ==
    [pc |-> "idle", origin |-> "none", error |-> FALSE,
     allExcludePatterns |-> <<>>, isGoProject |-> FALSE, isJavaProject |-> FALSE,
     fileCount |-> 0, files |-> <<>>, stack |-> <<>>]

ActiveScans == {s \in ScanIds : scans[s].pc # "idle"}

(***************************************************************************)
(* extractDependencies(content, fileExt).  The content is given as its     *)
(* lines (content.split('\n')), each a sequence of characters.             *)
(***************************************************************************)
\* Lines of a file content, at most.
MaxLines == 3

KW_IMPORT == <<"i", "m", "p", "o", "r", "t">>
KW_REQUIRE == <<"r", "e", "q", "u", "i", "r", "e">>
KW_FROM == <<"f", "r", "o", "m">>

\* DEPENDENCY_REGEX_MAP[fileExt] as the alternatives of the regex, each anchored
\* at the start of the tested string; no alternatives for an extension that has
\* no entry.
DEPENDENCY_REGEX_MAP(fileExt) ==
    IF fileExt \in {"js", "jsx", "ts", "tsx"} THEN {KW_IMPORT, KW_REQUIRE}
    ELSE IF fileExt = "py" THEN {KW_IMPORT, KW_FROM}
    ELSE IF fileExt \in {"java", "go"} THEN {KW_IMPORT}
    ELSE {}

\* regex.test(line) for /^a|^b/
RegexTest(regex, line) == \E kw \in regex : StartsWith(line, kw)

\* self.indexOf(line) === index, for every element: first occurrences only
RECURSIVE Unique(_)
Unique(seq) ==
    IF seq = <<>> THEN <<>>
    ELSE LET init == SubSeq(seq, 1, Len(seq) - 1)
             last == seq[Len(seq)]
         IN  IF \E i \in 1..Len(init) : init[i] = last
             THEN Unique(init)
             ELSE Append(Unique(init), last)

\* lines.filter(regex.test).map(trim).filter(first occurrence)
ExtractDependencies(lines, fileExt) ==
    LET regex == DEPENDENCY_REGEX_MAP(fileExt)
        Test(line) == RegexTest(regex, line)
        matching == SelectSeq(lines, Test)
    IN  IF regex = {} THEN <<>>
        ELSE Unique([i \in 1..Len(matching) |-> Trim(matching[i])])

NoExtraction == [content |-> <<>>, fileExt |-> "", dependencies |-> <<>>, returned |-> FALSE]

(***************************************************************************)
(* analyzeProject: the effective exclusion list and the project probes.    *)
(***************************************************************************)
\* gitignoreContent.split('\n').map(trim).filter(line && !line.startsWith('#'))
GitignorePatterns(lines) ==
    LET trimmed == [i \in 1..Len(lines) |-> Trim(lines[i])]
        Keep(line) == line # <<>> /\ ~StartsWith(line, <<"#">>)
    IN  SelectSeq(trimmed, Keep)

AllExcludePatterns(cfg) ==
    cfg.ignorePatterns \o cfg.excludePatterns
        \o (IF cfg.useVSCodeExclude THEN cfg.vsCodeExcludes ELSE <<>>)
        \o (IF cfg.useGitignore /\ cfg.gitignore # NoFile
            THEN GitignorePatterns(cfg.gitignore) ELSE <<>>)

GO_MOD == <<"g", "o", ".", "m", "o", "d">>
GO_SUM == <<"g", "o", ".", "s", "u", "m">>
POM_XML == <<"p", "o", "m", ".", "x", "m", "l">>
BUILD_GRADLE == <<"b", "u", "i", "l", "d", ".", "g", "r", "a", "d", "l", "e">>
BUILD_GRADLE_KTS == BUILD_GRADLE \o <<".", "k", "t", "s">>

\* isFileExists(path.join(directory, name)): stat succeeds
IsFileExists(root, name) ==
    \E i \in 1..Len(root.children) :
        root.children[i].name = name /\ root.children[i].statOk

IsGoProject(root) == IsFileExists(root, GO_MOD) \/ IsFileExists(root, GO_SUM)

IsJavaProject(root) ==
    \/ IsFileExists(root, POM_XML)
    \/ IsFileExists(root, BUILD_GRADLE)
    \/ IsFileExists(root, BUILD_GRADLE_KTS)

shouldIgnore(filePath, excludePatterns, isJavaProject) ==
    ShouldIgnoreWith(filePath, excludePatterns, isJavaProject, micromatch)

(***************************************************************************)
(* scanDirectory, one entry at a time.  A scan record sc carries the       *)
(* closure of analyzeProject (fileCount, files) and the recursion stack:   *)
(* one frame per active call of scanDirectory, with the listing readdir    *)
(* returned, the relative path and the index of the next entry.            *)
(***************************************************************************)
FileRecord(relPath, size) == [kind |-> "file", path |-> relPath, size |-> size]
Warning == [kind |-> "warning", path |-> <<>>, size |-> 0]

\* Mutant of Throw: the exception escapes scanProjectContext, no finally runs.
Throw_Uncaught(sc) == [sc EXCEPT !.pc = "crashed", !.error = TRUE, !.stack = <<>>]

\* A rejected await: the exception leaves analyzeProject and is caught by
\* scanProjectContext.
Throw(sc) == [sc EXCEPT !.pc = "finally", !.error = TRUE, !.stack = <<>>]

\* if (fileCount >= maxFiles) return;
BudgetReached(sc) == sc.fileCount >= config.maxFiles

\* Mutant of TooLarge: a file whose size equals the maximum is rejected too.
TooLarge_AtLimit(size) == size >= config.maxFileSize

\* if (stats.size > maxFileSize) continue;
TooLarge(size) == size > config.maxFileSize

\* fileCount++; if (fileCount > maxFiles) ...
OverLimit(count) == count > config.maxFiles

\* The call scanDirectory(dir, rel) up to and including its readdir.
EnterDirectory(sc, dir, rel) ==
    IF BudgetReached(sc) THEN sc
    ELSE IF ~dir.listable THEN Throw(sc)
    ELSE [sc EXCEPT !.stack = Append(@, [entries |-> dir.children, rel |-> rel, i |-> 1])]

\* The file branch of the loop body, after shouldIgnore and isDirectory.
\* sc is the scan with the loop index already advanced; d is the frame's depth.
ProcessFile(sc, d, entry, relPath) ==
    IF ~entry.statOk THEN Throw(sc)
    ELSE IF TooLarge(entry.size) THEN sc
    ELSE LET n == sc.fileCount + 1
         IN  IF OverLimit(n)
             THEN [sc EXCEPT !.fileCount = n,
                             !.files = Append(@, Warning),
                             !.stack[d].i = Len(sc.stack[d].entries) + 1]
             ELSE IF entry.readable
             THEN [sc EXCEPT !.fileCount = n,
                             !.files = Append(@, FileRecord(relPath, entry.size))]
             ELSE [sc EXCEPT !.fileCount = n]

\* Mutant of StepScan: the exclusion test is applied to files only, so an
\* excluded directory is entered and listed.
StepScan_PruneFilesOnly(sc) ==
    LET d == Len(sc.stack)
        top == sc.stack[d]
    IN  IF top.i > Len(top.entries)
        THEN [sc EXCEPT !.stack = SubSeq(@, 1, d - 1)]
        ELSE LET entry == top.entries[top.i]
                 relPath == PathJoin(top.rel, entry.name)
                 next == [sc EXCEPT !.stack[d].i = top.i + 1]
             IN  IF entry.isDir
                 THEN EnterDirectory(next, entry, relPath)
                 ELSE IF shouldIgnore(relPath, sc.allExcludePatterns, sc.isJavaProject)
                 THEN next
                 ELSE ProcessFile(next, d, entry, relPath)

\* One iteration of the for loop of the innermost call, or its return.
StepScan(sc) ==
    LET d == Len(sc.stack)
        top == sc.stack[d]
    IN  IF top.i > Len(top.entries)
        THEN [sc EXCEPT !.stack = SubSeq(@, 1, d - 1)]
        ELSE LET entry == top.entries[top.i]
                 relPath == PathJoin(top.rel, entry.name)
                 next == [sc EXCEPT !.stack[d].i = top.i + 1]
             IN  IF shouldIgnore(relPath, sc.allExcludePatterns, sc.isJavaProject)
                 THEN next
                 ELSE IF entry.isDir
                 THEN EnterDirectory(next, entry, relPath)
                 ELSE ProcessFile(next, d, entry, relPath)

\* await scanDirectory(directory) has returned: the result object is built.
Settle(sc) == IF sc.pc = "walk" /\ sc.stack = <<>> THEN [sc EXCEPT !.pc = "write"] ELSE sc

(***************************************************************************)
(* scanProjectContext                                                      *)
(***************************************************************************)
\* The parts of the state scanProjectContext never touches.
Environment ==
    <<workspaceFolders, config, micromatch, autoScan, active, fileWatcher, extraction>>

\* Mutant of AlreadyScanning: the guard is never tested.
AlreadyScanning_NoGuard == FALSE

\* if (isScanning)
AlreadyScanning == isScanning

\* Mutant of RejectScan: the rejected call runs the finally block of the scan.
RejectScan_Releases ==
    /\ message' = "AlreadyScanning"
    /\ isScanning' = FALSE
    /\ UNCHANGED scans

\* ... { showInformationMessage('Already scanning...'); return; }
RejectScan ==
    /\ message' = "AlreadyScanning"
    /\ UNCHANGED <<isScanning, scans>>

\* The scan slot a new invocation runs in.
FreeSlot(s) == scans[s].pc = "idle" /\ \A r \in ScanIds : scans[r].pc = "idle" => s <= r

\* isScanning = true; ... up to the first await of analyzeProject
BeginScan(origin) ==
    \E s \in ScanIds :
        /\ FreeSlot(s)
        /\ isScanning' = TRUE
        /\ scans' = [scans EXCEPT ![s] = [IdleScan EXCEPT !.pc = "analyze", !.origin = origin]]
        /\ message' = "Scanning"

\* The synchronous head of scanProjectContext: it decides isScanning, scans, message.
ScanProjectContext(origin) ==
    IF AlreadyScanning THEN RejectScan
    ELSE IF ~workspaceFolders
    THEN message' = "NoWorkspace" /\ UNCHANGED <<isScanning, scans>>
    ELSE BeginScan(origin)

\* The command project-context-scanner.scan
ManualScan ==
    /\ active
    /\ ScanProjectContext("manual")
    /\ UNCHANGED <<Environment, outputEvent, tree, scanDebounceTimer, timers, artifact, sinceChange>>

\* analyzeProject up to the readdir of the root directory
AnalyzeProject(s) ==
    /\ scans[s].pc = "analyze"
    /\ LET sc == [scans[s] EXCEPT !.pc = "walk",
                                  !.allExcludePatterns = AllExcludePatterns(config),
                                  !.isGoProject = IsGoProject(tree),
                                  !.isJavaProject = IsJavaProject(tree),
                                  !.fileCount = 0,
                                  !.files = <<>>]
       IN  scans' = [scans EXCEPT ![s] = Settle(EnterDirectory(sc, tree, <<>>))]
    /\ UNCHANGED <<Environment, outputEvent, tree, isScanning, scanDebounceTimer, timers, message,
                   artifact, sinceChange>>

\* One loop iteration (or one return) of scanDirectory
WalkStep(s) ==
    /\ scans[s].pc = "walk"
    /\ scans' = [scans EXCEPT ![s] = Settle(StepScan(scans[s]))]
    /\ UNCHANGED <<Environment, outputEvent, tree, isScanning, scanDebounceTimer, timers, message,
                   artifact, sinceChange>>

\* The output file appears in the root directory (or is overwritten).
WithOutputFile(root, name, sz) ==
    LET out == [FileEntry(TRUE, sz, TRUE) EXCEPT !.name = name]
    IN  IF \E i \in 1..Len(root.children) : root.children[i].name = name
        THEN [root EXCEPT !.children =
                 [i \in 1..Len(@) |-> IF @[i].name = name THEN out ELSE @[i]]]
        ELSE [root EXCEPT !.children = Append(@, out)]

\* await writeFile(outputFilePath, JSON.stringify(result, null, 2))
WriteOutput(s) ==
    /\ scans[s].pc = "write"
    /\ \E ok \in BOOLEAN, sz \in FileSizes :
          IF ok
          THEN /\ artifact' = [written |-> TRUE,
                               files |-> scans[s].files,
                               fileCount |-> scans[s].fileCount,
                               excludedPatterns |-> scans[s].allExcludePatterns]
               /\ tree' = WithOutputFile(tree, config.outputFile, sz)
               /\ scans' = [scans EXCEPT ![s].pc = "finally"]
               /\ outputEvent' = (outputEvent \/ fileWatcher)
          ELSE /\ scans' = [scans EXCEPT ![s].pc = "finally", ![s].error = TRUE]
               /\ UNCHANGED <<artifact, tree, outputEvent>>
    /\ UNCHANGED <<Environment, isScanning, scanDebounceTimer, timers, message, sinceChange>>

\* catch { showErrorMessage } finally { isScanning = false; ... }
ScanFinally(s) ==
    /\ scans[s].pc = "finally"
    /\ isScanning' = FALSE
    /\ message' = IF scans[s].error THEN "Error" ELSE "ScanComplete"
    /\ scans' = [scans EXCEPT ![s] = IdleScan]
    /\ UNCHANGED <<Environment, outputEvent, tree, scanDebounceTimer, timers, artifact, sinceChange>>

(***************************************************************************)
(* debounceScan and the timer it schedules                                 *)
(***************************************************************************)
\* Mutant of ClearTimeout: the pending timeout is not cancelled.
ClearTimeout_Keeps(handle) == timers

\* if (scanDebounceTimer) clearTimeout(scanDebounceTimer): the timeouts left pending
ClearTimeout(handle) ==
    IF handle # 0 THEN {t \in timers : t.id # handle} ELSE timers

\* The handle setTimeout returns: one that no pending timeout has.
FreshTimerId(pending, id) ==
    LET free == TimerIds \ {t.id : t \in pending}
    IN  id \in free /\ \A j \in free : id <= j

\* debounceScan(); duringScan records (history) whether a scan was running.
DebounceScan ==
    LET pending == ClearTimeout(scanDebounceTimer)
    IN  \E id \in TimerIds :
            /\ FreshTimerId(pending, id)
            /\ timers' = pending \cup
                   {[id |-> id, remaining |-> DebounceDelay, duringScan |-> isScanning]}
            /\ scanDebounceTimer' = id
            /\ sinceChange' = 0

\* fileWatcher.onDidCreate / onDidChange for the output file a scan wrote: the
\* watcher covers every path below the workspace root ('**/*'), the output file
\* is written into that root, and the callbacks do not look at the path.
OnOutputWritten ==
    /\ fileWatcher
    /\ outputEvent
    /\ outputEvent' = FALSE
    /\ DebounceScan
    /\ UNCHANGED <<Environment, tree, isScanning, scans, message, artifact>>

\* fileWatcher.onDidCreate / onDidChange / onDidDelete for a change made outside
\* the extension
OnChange ==
    /\ fileWatcher
    /\ DebounceScan
    /\ UNCHANGED <<Environment, outputEvent, tree, isScanning, scans, message, artifact>>

\* Mutant of TimerFire: a trigger that finds a scan running is put off by one
\* more quiet interval instead of being dropped.
TimerFire_Deferred ==
    \E t \in timers :
        /\ t.remaining = 0
        /\ IF isScanning
           THEN /\ timers' = (timers \ {t}) \cup {[t EXCEPT !.remaining = DebounceDelay]}
                /\ UNCHANGED <<isScanning, scans, message>>
           ELSE /\ timers' = timers \ {t}
                /\ ScanProjectContext("timer")
        /\ UNCHANGED <<Environment, outputEvent, tree, scanDebounceTimer, artifact, sinceChange>>

\* The setTimeout callback: () => { scanProjectContext(); }
TimerFire ==
    \E t \in timers :
        /\ t.remaining = 0
        /\ timers' = timers \ {t}
        /\ ScanProjectContext("timer")
        /\ UNCHANGED <<Environment, outputEvent, tree, scanDebounceTimer, artifact, sinceChange>>

\* One second passes; a due timeout fires before more time passes.
Tick ==
    /\ \A t \in timers : t.remaining > 0
    /\ timers' = {[t EXCEPT !.remaining = @ - 1] : t \in timers}
    /\ sinceChange' = IF sinceChange <= DebounceDelay THEN sinceChange + 1 ELSE sinceChange
    /\ UNCHANGED <<Environment, outputEvent, tree, isScanning, scanDebounceTimer, scans, message, artifact>>

(***************************************************************************)
(* toggleAutoScan, enableAutoScan, disableAutoScan, deactivate             *)
(***************************************************************************)
\* A watcher is created only when a workspace folder is open.
EnableAutoScan == fileWatcher' = workspaceFolders /\ outputEvent' = FALSE

\* A disposed watcher delivers nothing more.
DisableAutoScan == fileWatcher' = FALSE /\ outputEvent' = FALSE

ToggleAutoScan ==
    /\ active
    /\ autoScan' = ~autoScan
    /\ IF ~autoScan
       THEN EnableAutoScan /\ message' = "AutoScanEnabled"
       ELSE DisableAutoScan /\ message' = "AutoScanDisabled"
    /\ UNCHANGED <<workspaceFolders, config, micromatch, active, tree, isScanning,
                   scanDebounceTimer, timers, scans, artifact, sinceChange, extraction>>

Deactivate ==
    /\ active
    /\ active' = FALSE
    /\ fileWatcher' = FALSE
    /\ outputEvent' = FALSE
    /\ UNCHANGED <<workspaceFolders, config, micromatch, autoScan, tree, isScanning,
                   scanDebounceTimer, timers, scans, message, artifact, sinceChange,
                   extraction>>

(***************************************************************************)
(* Specifications                                                          *)
(***************************************************************************)
\* The state after activate(): idle, no timer, watching iff autoScan is set.
\* (Without exclusion patterns micromatch is never consulted, so it is not varied.)
InitSession(cfgs, roots) ==
    /\ workspaceFolders \in BOOLEAN
    /\ config \in cfgs
    /\ micromatch \in (IF AllExcludePatterns(config) = <<>> THEN {TRUE} ELSE BOOLEAN)
    /\ tree \in (IF workspaceFolders THEN roots ELSE {DirEntry(FALSE, <<>>)})
    /\ autoScan \in BOOLEAN
    /\ active = TRUE
    /\ fileWatcher = (autoScan /\ workspaceFolders)
    /\ isScanning = FALSE
    /\ scanDebounceTimer = 0
    /\ timers = {}
    /\ scans = [s \in ScanIds |-> IdleScan]
    /\ message = "None"
    /\ artifact = NoArtifact
    /\ sinceChange = DebounceDelay + 1
    /\ extraction = NoExtraction
    /\ outputEvent = FALSE

\* The session: every command, notification and timer, over small trees.
Init ==
    InitSession({c \in Configs : c.maxFiles = 1 /\ c.excludePatterns = <<>>},
                Roots(SessionNodes))

Next ==
    \/ ManualScan
    \/ \E s \in ScanIds : AnalyzeProject(s)
    \/ \E s \in ScanIds : WalkStep(s)
    \/ \E s \in ScanIds : WriteOutput(s)
    \/ \E s \in ScanIds : ScanFinally(s)
    \/ OnChange
    \/ OnOutputWritten
    \/ TimerFire
    \/ Tick
    \/ ToggleAutoScan
    \/ Deactivate

Spec == Init /\ [][Next]_vars

\* Every await of a running scan settles and its continuation runs.
ScanProgress ==
    \E s \in ScanIds : AnalyzeProject(s) \/ WalkStep(s) \/ WriteOutput(s) \/ ScanFinally(s)

FairSpec == Spec /\ WF_vars(ScanProgress)

\* The runtime also lets time pass, runs the callback of a due timeout and
\* delivers the event of a written file to a live watcher.
WatchSpec ==
    /\ Spec
    /\ WF_vars(ScanProgress)
    /\ WF_vars(Tick)
    /\ WF_vars(TimerFire)
    /\ WF_vars(OnOutputWritten)

\* One scan of one tree, from the accepted command (isScanning just set) to the
\* written or failed output.
WalkInit ==
    /\ tree \in Roots(MaxNodes)
    /\ workspaceFolders = TRUE
    /\ config \in Configs
    /\ micromatch \in (IF AllExcludePatterns(config) = <<>> THEN {TRUE} ELSE BOOLEAN)
    /\ autoScan = FALSE
    /\ active = TRUE
    /\ fileWatcher = FALSE
    /\ isScanning = TRUE
    /\ scanDebounceTimer = 0
    /\ timers = {}
    /\ scans = [s \in ScanIds |->
                  IF s = 1 THEN [IdleScan EXCEPT !.pc = "analyze", !.origin = "manual"]
                  ELSE IdleScan]
    /\ message = "Scanning"
    /\ artifact = NoArtifact
    /\ sinceChange = DebounceDelay + 1
    /\ extraction = NoExtraction
    /\ outputEvent = FALSE

WalkNext ==
    \/ \E s \in ScanIds : AnalyzeProject(s)
    \/ \E s \in ScanIds : WalkStep(s)
    \/ \E s \in ScanIds : WriteOutput(s)

WalkSpec == WalkInit /\ [][WalkNext]_vars

(***************************************************************************)
(* Named trees: workspaces whose entries carry the names the matcher and   *)
(* the project probes look for, listed in any enumeration order (readdir   *)
(* returns the entries in the order the filesystem yields them).           *)
(***************************************************************************)
\* Entries of a root listing, at most.
MaxListing == 2

NODE_MODULES == <<"n", "o", "d", "e", "_", "m", "o", "d", "u", "l", "e", "s">>
MY_NODE_MODULES == <<"m", "y", "_">> \o NODE_MODULES
DIR_A == <<"a">>
X_JS == <<"x", ".", "j", "s">>
B_JS == <<"b", ".", "j", "s">>

\* A readable file within the size limit, and a listable directory.
NamedFile(name) == [FileEntry(TRUE, MAX_FILE_SIZE, TRUE) EXCEPT !.name = name]

NamedDir(name, ch) == [DirEntry(TRUE, ch) EXCEPT !.name = name]

\* What a root directory may hold: marker files of the project probes, the
\* always-ignored marker file, source files, and directories.
RootEntries ==
    {NamedFile(n) : n \in {GO_MOD, GO_SUM, POM_XML, BUILD_GRADLE, BUILD_GRADLE_KTS,
                           DS_STORE, X_JS}}
        \cup {NamedDir(NODE_MODULES, <<NamedFile(X_JS)>>),
              NamedDir(MY_NODE_MODULES, <<NamedFile(X_JS)>>),
              NamedDir(TARGET, <<NamedFile(X_JS)>>),
              NamedDir(DIR_A, <<NamedDir(NODE_MODULES, <<NamedFile(B_JS)>>)>>),
              NamedDir(DIR_A, <<NamedDir(TARGET, <<NamedFile(X_JS)>>)>>),
              NamedDir(DIR_A, <<NamedFile(DS_STORE), NamedFile(B_JS)>>)}

\* The listings of exactly n entries with distinct names, in every order.
RECURSIVE NamedListings(_)
NamedListings(n) ==
    IF n = 0 THEN {<<>>}
    ELSE {Append(q[1], q[2]) :
             q \in {r \in NamedListings(n - 1) \X RootEntries :
                       \A i \in 1..(n - 1) : r[1][i].name # r[2].name}}

RECURSIVE NamedRoots(_)
NamedRoots(n) ==
    IF n = 0 THEN {DirEntry(TRUE, <<>>)}
    ELSE NamedRoots(n - 1) \cup {DirEntry(TRUE, l) : l \in NamedListings(n)}

\* Exclusion rules: the directory form, a rule that is blank after trimming (the
\* glob evaluator rejects an empty pattern), a leading wildcard, a plain name.
RULE_NODE_MODULES == NODE_MODULES \o <<"/">>
RULE_BLANK == <<" ">>
RULE_STAR_JS == <<"*", ".", "j", "s">>
RULE_A == <<"a">>

RuleLists ==
    {<<>>, <<RULE_NODE_MODULES>>, <<RULE_BLANK>>, <<RULE_STAR_JS>>,
     <<RULE_BLANK, RULE_NODE_MODULES>>, <<RULE_STAR_JS, RULE_BLANK>>,
     <<RULE_A, RULE_NODE_MODULES>>}

RuleConfigs ==
    [maxFileSize : {MAX_FILE_SIZE},
     maxFiles : {MaxFilesLimit},
     ignorePatterns : {<<>>},
     excludePatterns : RuleLists,
     useGitignore : {FALSE},
     gitignore : {GitignoreText},
     useVSCodeExclude : {FALSE},
     vsCodeExcludes : {<<>>},
     outputFile : {OutputName}]

\* One scan of one named tree, from the accepted command to the written or
\* failed output.
RuleInit ==
    /\ tree \in NamedRoots(MaxListing)
    /\ workspaceFolders = TRUE
    /\ config \in RuleConfigs
    /\ micromatch \in BOOLEAN
    /\ autoScan = FALSE
    /\ active = TRUE
    /\ fileWatcher = FALSE
    /\ isScanning = TRUE
    /\ scanDebounceTimer = 0
    /\ timers = {}
    /\ scans = [s \in ScanIds |->
                  IF s = 1 THEN [IdleScan EXCEPT !.pc = "analyze", !.origin = "manual"]
                  ELSE IdleScan]
    /\ message = "Scanning"
    /\ artifact = NoArtifact
    /\ sinceChange = DebounceDelay + 1
    /\ extraction = NoExtraction
    /\ outputEvent = FALSE

RuleSpec == RuleInit /\ [][WalkNext]_vars

\* Lines of source files: dependency statements, plain and indented, with
\* trailing blanks, an identifier that merely starts with a keyword, and lines
\* that are no dependency statement.
IMPORT_OS == <<"i", "m", "p", "o", "r", "t", " ", "o", "s">>
FROM_X == <<"f", "r", "o", "m", " ", "x">>
REQUIRE_X == <<"r", "e", "q", "u", "i", "r", "e", "(", "x", ")">>
IMPORTLIB == <<"i", "m", "p", "o", "r", "t", "l", "i", "b">>
X_IMPORT == <<"x", " ", "i", "m", "p", "o", "r", "t">>

SourceLines ==
    {IMPORT_OS, <<" ", " ">> \o IMPORT_OS, <<"\t">> \o IMPORT_OS, IMPORT_OS \o <<" ">>,
     FROM_X, REQUIRE_X, IMPORTLIB, X_IMPORT, <<>>}

RECURSIVE Contents(_)
Contents(n) ==
    IF n = 0 THEN {<<>>}
    ELSE Contents(n - 1)
         \cup {Append(c, l) : c \in {c \in Contents(n - 1) : Len(c) = n - 1},
                              l \in SourceLines}

FileExts == {"js", "py", "java", "md"}

\* A call of extractDependencies on one file content.
ExtractInit ==
    /\ extraction \in [content : Contents(MaxLines), fileExt : FileExts,
                       dependencies : {<<>>}, returned : {FALSE}]
    /\ workspaceFolders = TRUE
    /\ config \in {c \in Configs : c.maxFiles = 1 /\ c.excludePatterns = <<>>}
    /\ micromatch = TRUE
    /\ tree = DirEntry(TRUE, <<>>)
    /\ autoScan = FALSE
    /\ active = TRUE
    /\ fileWatcher = FALSE
    /\ isScanning = TRUE
    /\ scanDebounceTimer = 0
    /\ timers = {}
    /\ scans = [s \in ScanIds |->
                  IF s = 1 THEN [IdleScan EXCEPT !.pc = "walk", !.origin = "manual"]
                  ELSE IdleScan]
    /\ message = "Scanning"
    /\ artifact = NoArtifact
    /\ sinceChange = DebounceDelay + 1
    /\ outputEvent = FALSE

ExtractCall ==
    /\ ~extraction.returned
    /\ extraction' = [extraction EXCEPT
                        !.dependencies = ExtractDependencies(extraction.content,
                                                             extraction.fileExt),
                        !.returned = TRUE]
    /\ UNCHANGED <<workspaceFolders, config, micromatch, tree, autoScan, active,
                   fileWatcher, isScanning, scanDebounceTimer, timers, scans, message,
                   artifact, sinceChange, outputEvent>>

ExtractNext == ExtractCall

ExtractSpec == ExtractInit /\ [][ExtractNext]_vars

(***************************************************************************)
(* Properties of the scan session                                          *)
(***************************************************************************)
\* A call of scanProjectContext, from the command or from the debounce timer.
ScanRequest == ManualScan \/ TimerFire

\* C1: at most one scan is active in every reachable state, and a call of
\* scanProjectContext made while isScanning is true answers "already scanning"
\* at once: it occupies no scan slot (it neither enters the walk nor is queued)
\* and the scan in flight stays as it is, guard held.
C1_AtMostOneScan ==
    /\ [](Cardinality(ActiveScans) <= 1)
    /\ [][(isScanning /\ ScanRequest) =>
            /\ message' = "AlreadyScanning"
            /\ ActiveScans' = ActiveScans
            /\ scans' = scans
            /\ isScanning']_vars

\* C1 witness: a scan started by the debounce timer is walking and a second
\* call has been answered "already scanning".
C1_Witness ==
    /\ isScanning
    /\ message = "AlreadyScanning"
    /\ \E s \in ScanIds : scans[s].pc = "walk" /\ scans[s].origin = "timer"

\* C2: every scan that set isScanning eventually clears it, whatever the outcome
\* of the walk and of the write (under FairSpec: the awaits of a scan settle).
C2_GuardReleased == isScanning ~> ~isScanning

\* C2 witness: a scan has failed (the walk threw, or the write failed) and the
\* guard is released.
C2_Witness == ~isScanning /\ message = "Error" /\ ActiveScans = {}

\* C3: a rejected request changes nothing but the notification shown: the guard
\* stays set, the handle and every pending timer are untouched (the timer whose
\* firing made the request is gone, no other), and the running scan's files and
\* fileCount, the tree and the written artifact are as they were.
C3_RejectionChangesNothing ==
    [][(isScanning /\ ScanRequest) =>
          /\ isScanning'
          /\ UNCHANGED <<scans, scanDebounceTimer, tree, artifact>>
          /\ (ManualScan => timers' = timers)
          /\ timers' \subseteq timers
          /\ Cardinality(timers') >= Cardinality(timers) - 1]_vars

\* C3 witness: a request has been rejected while the walk holds accepted files
\* and a debounce timer is pending.
C3_Witness ==
    /\ message = "AlreadyScanning"
    /\ timers # {}
    /\ \E s \in ScanIds : scans[s].pc = "walk" /\ scans[s].files # <<>>

\* C4: at most one debounce timer is pending; each debounceScan leaves exactly
\* one, due a full quiet interval later; and the timer fires exactly one quiet
\* interval after the last notification, leaving none pending: one call of
\* scanProjectContext per burst.
C4_SingleDebounceTimer ==
    /\ [](Cardinality(timers) <= 1)
    /\ [][OnChange =>
            /\ Cardinality(timers') = 1
            /\ \A t \in timers' : t.remaining = DebounceDelay /\ t.id = scanDebounceTimer']_vars
    /\ [][TimerFire => (sinceChange = DebounceDelay /\ timers' = {})]_vars

\* C4 witness: the debounce timer has just fired, one quiet interval after the
\* last notification, and started a scan; nothing is pending.
C4_Witness ==
    /\ scanDebounceTimer # 0
    /\ timers = {}
    /\ sinceChange = DebounceDelay
    /\ \E s \in ScanIds : scans[s].pc = "analyze" /\ scans[s].origin = "timer"

\* C5 as stated: a notification that arrives while a scan is in progress never
\* causes a scan to start, i.e. a timer scheduled during a scan never starts one.
C5_NotificationDuringScanDropped ==
    [][\A t \in timers :
          (t.duringScan /\ TimerFire /\ t \notin timers') => ~(~isScanning /\ isScanning')]_vars

\* C5 amended: a debounce trigger that fires while a scan is in progress is
\* dropped, not deferred: no scan starts, no timer is scheduled in its place and
\* the handle is unchanged, so nothing is left that could start a scan later.
C5_TriggerDuringScanDropped ==
    [][(isScanning /\ TimerFire) =>
          /\ message' = "AlreadyScanning"
          /\ scans' = scans
          /\ isScanning'
          /\ scanDebounceTimer' = scanDebounceTimer
          /\ timers' \subseteq timers
          /\ timers' # timers]_vars

\* C5 witness: a trigger has fired during a scan and was rejected; no timer is
\* pending and the scan is still walking.
C5_Witness ==
    /\ isScanning
    /\ message = "AlreadyScanning"
    /\ timers = {}
    /\ scanDebounceTimer # 0
    /\ sinceChange = DebounceDelay
    /\ \E s \in ScanIds : scans[s].pc = "walk" /\ scans[s].origin = "manual"

\* C17: after deactivate the watcher is released and no debounce timer is
\* pending, and no scan starts once deactivate has returned.
C17_TornDownOnDeactivate ==
    /\ [](~active => (~fileWatcher /\ timers = {}))
    /\ [][~active => ~(~isScanning /\ isScanning')]_vars

(***************************************************************************)
(* Properties of the walk                                                  *)
(***************************************************************************)
\* The walk of scan s has returned normally: the result object is built and
\* is about to be written.
WalkDone(s) == scans[s].pc = "write"

IsWarning(r) == r.kind = "warning"

\* The files of a listing that the walk of scan s may accept: not excluded, stat
\* succeeds, size within the limit, content readable; below directories that are
\* themselves not excluded.
RECURSIVE EligibleFiles(_, _, _)
EligibleFiles(s, entries, rel) ==
    UNION {LET e == entries[i]
               relPath == PathJoin(rel, e.name)
           IN  IF shouldIgnore(relPath, scans[s].allExcludePatterns, scans[s].isJavaProject)
               THEN {}
               ELSE IF e.isDir THEN EligibleFiles(s, e.children, relPath)
               ELSE IF e.statOk /\ e.size <= config.maxFileSize /\ e.readable
               THEN {FileRecord(relPath, e.size)}
               ELSE {}
           : i \in 1..Len(entries)}

\* The root lists only eligible files, more of them than maxFiles.
FlatOverfullRoot(s) ==
    /\ tree.listable
    /\ Len(tree.children) > config.maxFiles
    /\ \A i \in 1..Len(tree.children) :
          FileRecord(tree.children[i].name, tree.children[i].size)
              \in EligibleFiles(s, tree.children, <<>>)

\* C6: with more eligible files in a directory than maxFiles = N, the result's
\* files are the first N files in visitation order and then one warning, and the
\* summary's fileCount is N.
C6_LimitResult ==
    \A s \in ScanIds :
        (WalkDone(s) /\ FlatOverfullRoot(s)) =>
            /\ scans[s].files =
                  [i \in 1..(config.maxFiles + 1) |->
                      IF i <= config.maxFiles
                      THEN FileRecord(tree.children[i].name, tree.children[i].size)
                      ELSE Warning]
            /\ scans[s].fileCount = config.maxFiles

\* The entry the innermost scanDirectory call of scan s looks at next; none when
\* the call is about to return.
AtEntry(s) ==
    /\ scans[s].pc = "walk"
    /\ scans[s].stack[Len(scans[s].stack)].i
          <= Len(scans[s].stack[Len(scans[s].stack)].entries)

\* C7: one walk appends at most one warning, the warning is the last element of
\* files, and once fileCount has exceeded maxFiles the walk only returns: no
\* further entry of any directory is looked at.
C7_SingleTerminalWarning ==
    /\ [](\A s \in ScanIds : \A i \in 1..Len(scans[s].files) :
            IsWarning(scans[s].files[i]) => i = Len(scans[s].files))
    /\ [](\A s \in ScanIds : scans[s].fileCount > config.maxFiles => ~AtEntry(s))

\* C8: when the walk ends with an eligible file left out of the result, the
\* files list ends with the warning record.
C8_LeftOutImpliesWarning ==
    \A s \in ScanIds :
        (/\ WalkDone(s)
         /\ \E r \in EligibleFiles(s, tree.children, <<>>) :
               \A i \in 1..Len(scans[s].files) : scans[s].files[i] # r)
        => (/\ scans[s].files # <<>>
            /\ IsWarning(scans[s].files[Len(scans[s].files)]))

\* The entry that the next step of scan s looks at, and its relative path.
EntryAt(s) ==
    LET top == scans[s].stack[Len(scans[s].stack)] IN top.entries[top.i]

RelPathAt(s) ==
    LET top == scans[s].stack[Len(scans[s].stack)]
    IN  PathJoin(top.rel, top.entries[top.i].name)

\* The next step of scan s stats a file: the entry is not excluded, is not a
\* directory, and stat succeeds.
StatsFile(s) ==
    /\ AtEntry(s)
    /\ ~EntryAt(s).isDir
    /\ EntryAt(s).statOk
    /\ ~shouldIgnore(RelPathAt(s), scans[s].allExcludePatterns, scans[s].isJavaProject)

\* C9: no record of a file larger than maxFileSize is ever in files; the step
\* that stats such a file changes neither files nor fileCount (no record, no
\* count, no warning); a file whose size equals maxFileSize is counted, and is
\* recorded when the count is within maxFiles and its content can be read.
C9_SizeLimit ==
    /\ [](\A s \in ScanIds : \A i \in 1..Len(scans[s].files) :
            scans[s].files[i].size <= config.maxFileSize)
    /\ [][\A s \in ScanIds :
            (StatsFile(s) /\ WalkStep(s)) =>
                /\ (EntryAt(s).size > config.maxFileSize =>
                      /\ scans'[s].files = scans[s].files
                      /\ scans'[s].fileCount = scans[s].fileCount)
                /\ (EntryAt(s).size = config.maxFileSize =>
                      /\ scans'[s].fileCount = scans[s].fileCount + 1
                      /\ ((scans'[s].fileCount <= config.maxFiles /\ EntryAt(s).readable) =>
                            scans'[s].files =
                                Append(scans[s].files,
                                       FileRecord(RelPathAt(s), EntryAt(s).size))))]_vars

\* C9 witness: the walk is done; the first entry of the root is a file larger
\* than maxFileSize and the second a file of exactly maxFileSize, and the result
\* holds the second only, counted once.
C9_Witness ==
    \E s \in ScanIds :
        /\ WalkDone(s)
        /\ Len(tree.children) >= 2
        /\ ~tree.children[1].isDir /\ tree.children[1].statOk
        /\ tree.children[1].size > config.maxFileSize
        /\ tree.children[2].size = config.maxFileSize
        /\ scans[s].files = <<FileRecord(tree.children[2].name, config.maxFileSize)>>
        /\ scans[s].fileCount = 1

\* C10: at the end of a walk that did not hit the file-count limit, fileCount is
\* the number of FileRecords in files (a file that cannot be read is not counted).
C10_CountEqualsRecords ==
    \A s \in ScanIds :
        (/\ WalkDone(s)
         /\ \A i \in 1..Len(scans[s].files) : ~IsWarning(scans[s].files[i]))
        => scans[s].fileCount = Len(scans[s].files)

\* C11: a scan whose walk is done holds the same files list as the result the
\* previous scan wrote (the configuration never changes in a session, and the
\* tree changes only by the previous scan's own write of its output file).
C11_SameFilesOnRescan ==
    \A s \in ScanIds :
        (WalkDone(s) /\ artifact.written) => scans[s].files = artifact.files

\* C16: once the root has been listed, no step of the walk aborts the scan: a
\* failing stat or read of one file, or a subdirectory that cannot be listed,
\* leaves the scan in the walk (or done with it, about to write the artifact).
C16_EntryFailuresAbsorbed ==
    [][\A s \in ScanIds :
          WalkStep(s) => (~scans'[s].error /\ scans'[s].pc \in {"walk", "write"})]_vars

\* The path p, or a directory above it, is matched by the walk's exclusion test.
PrunedPath(s, p) ==
    \/ shouldIgnore(p, scans[s].allExcludePatterns, scans[s].isJavaProject)
    \/ \E j \in 1..Len(p) :
          /\ p[j] = "/"
          /\ shouldIgnore(SubSeq(p, 1, j - 1), scans[s].allExcludePatterns,
                          scans[s].isJavaProject)

\* C18: the step at an excluded entry only moves on to the next entry: it neither
\* stats nor reads nor lists it (so it cannot fail on it), and changes neither
\* fileCount nor files; no directory that is excluded, or lies below an excluded
\* one, is ever listed, and no file below one is ever added to the result.
C18_PrunedBeforeIO ==
    /\ [][\A s \in ScanIds :
            (/\ AtEntry(s)
             /\ shouldIgnore(RelPathAt(s), scans[s].allExcludePatterns, scans[s].isJavaProject)
             /\ WalkStep(s))
            => scans'[s] = [scans[s] EXCEPT !.stack[Len(scans[s].stack)].i = @ + 1]]_vars
    /\ [](\A s \in ScanIds :
            /\ \A k \in 2..Len(scans[s].stack) : ~PrunedPath(s, scans[s].stack[k].rel)
            /\ \A i \in 1..Len(scans[s].files) :
                  IsWarning(scans[s].files[i]) \/ ~PrunedPath(s, scans[s].files[i].path))

\* C18 witness: the walk has ended normally although the root holds an excluded
\* directory with a file whose stat would fail, and an accepted file beside it.
C18_Witness ==
    \E s \in ScanIds :
        /\ WalkDone(s)
        /\ scans[s].files # <<>>
        /\ \E i \in 1..Len(tree.children) :
              /\ tree.children[i].isDir
              /\ shouldIgnore(tree.children[i].name, scans[s].allExcludePatterns,
                              scans[s].isJavaProject)
              /\ \E j \in 1..Len(tree.children[i].children) :
                    ~tree.children[i].children[j].statOk

(***************************************************************************)
(* Properties of the exclusion matcher and of the walk over named trees    *)
(***************************************************************************)
\* The relative paths of all entries below a listing (path.join of the names).
RECURSIVE TreePaths(_, _)
TreePaths(entries, rel) ==
    UNION {LET relPath == PathJoin(rel, entries[i].name)
           IN  {relPath} \cup TreePaths(entries[i].children, relPath)
           : i \in 1..Len(entries)}

\* C12: with the single rule "node_modules/" shouldIgnore is true for
\* node_modules, node_modules/x.js and a/node_modules/b.js and false for
\* my_node_modules/x.js, in the glob tier and in the fallback tier alike.
C12_DirectoryRule ==
    \A s \in ScanIds :
        (scans[s].pc = "walk" /\ scans[s].allExcludePatterns = <<RULE_NODE_MODULES>>) =>
            \A p \in TreePaths(tree.children, <<>>) :
                /\ (p \in {NODE_MODULES,
                           PathJoin(NODE_MODULES, X_JS),
                           PathJoin(PathJoin(DIR_A, NODE_MODULES), B_JS)}
                      => shouldIgnore(p, scans[s].allExcludePatterns, scans[s].isJavaProject))
                /\ (p = PathJoin(MY_NODE_MODULES, X_JS)
                      => ~shouldIgnore(p, scans[s].allExcludePatterns, scans[s].isJavaProject))

\* The built-in rules of shouldIgnore, which precede the loop over the rules.
BuiltInIgnores(path, isJavaProject) == ShouldIgnoreWith(path, <<>>, isJavaProject, micromatch)

\* The lists with the same rules as R in every order.
Reorderings(R) ==
    {[i \in 1..Len(R) |-> R[f[i]]] :
        f \in {g \in [1..Len(R) -> 1..Len(R)] : \A i, j \in 1..Len(R) : g[i] = g[j] => i = j}}

\* C13: for every path of the tree and the rule list of the walk, shouldIgnore
\* gives the same answer for every permutation of the list, and the answer is
\* true exactly when a built-in rule matches or some rule of the list matches
\* the path on its own.
C13_OrderIndependent ==
    \A s \in ScanIds :
        scans[s].pc = "walk" =>
            \A p \in TreePaths(tree.children, <<>>) :
                LET R == scans[s].allExcludePatterns
                    java == scans[s].isJavaProject
                IN  /\ \A Q \in Reorderings(R) :
                          ShouldIgnoreWith(p, Q, java, micromatch) = shouldIgnore(p, R, java)
                    /\ shouldIgnore(p, R, java) =
                          (\/ BuiltInIgnores(NormalizePath(p), java)
                           \/ \E i \in 1..Len(R) : PatternMatches(NormalizePath(p), R[i], micromatch))

\* C13 witness: the walk is at an entry that the second of two rules matches and
\* the first does not, the two rules being evaluated by different tiers (the
\* first by the glob evaluator, the second, which it rejects, by the fallback),
\* and the entry is ignored.
C13_Witness ==
    \E s \in ScanIds :
        /\ AtEntry(s)
        /\ micromatch
        /\ Len(scans[s].allExcludePatterns) = 2
        /\ ~MicromatchThrows(Trim(scans[s].allExcludePatterns[1]))
        /\ MicromatchThrows(Trim(scans[s].allExcludePatterns[2]))
        /\ ~PatternMatches(RelPathAt(s), scans[s].allExcludePatterns[1], micromatch)
        /\ PatternMatches(RelPathAt(s), scans[s].allExcludePatterns[2], micromatch)
        /\ ~BuiltInIgnores(RelPathAt(s), scans[s].isJavaProject)
        /\ shouldIgnore(RelPathAt(s), scans[s].allExcludePatterns, scans[s].isJavaProject)

\* The entry at path p lies inside a directory named d (at any depth).
InsideDir(p, d) == StartsWith(p, d \o <<"/">>) \/ Includes(p, <<"/">> \o d \o <<"/">>)

\* The names of the directories that occur in the named trees.
DirectoryNames == {NODE_MODULES, MY_NODE_MODULES, TARGET, DIR_A}

\* C14: with a Java marker at the root the walk's matcher excludes the target
\* directory and everything inside a target directory at any depth, with no
\* rule naming it; with a Go marker at the root it excludes some build-output
\* directory in the same way; and with no Java marker the built-in rules do
\* not exclude target.
C14_ProjectTypeInjection ==
    \A s \in ScanIds :
        scans[s].pc = "walk" =>
            /\ (scans[s].isJavaProject =>
                  \A p \in TreePaths(tree.children, <<>>) :
                      (p = TARGET \/ InsideDir(p, TARGET))
                          => shouldIgnore(p, scans[s].allExcludePatterns, TRUE))
            /\ (scans[s].isGoProject =>
                  \E d \in DirectoryNames :
                      /\ ShouldIgnoreWith(d, <<>>, scans[s].isJavaProject, micromatch)
                      /\ ~ShouldIgnoreWith(d, <<>>, FALSE, micromatch))
            /\ (~scans[s].isJavaProject =>
                  \A p \in TreePaths(tree.children, <<>>) :
                      (p = TARGET \/ InsideDir(p, TARGET))
                          => ~BuiltInIgnores(p, FALSE))

\* C15: every entry the walk prunes is matched by some rule of the list that
\* the summary reports as excludedPatterns (the walk's allExcludePatterns), and
\* the written summary carries that list.
C15_ExcludedPatternsComplete ==
    /\ \A s \in ScanIds :
          (AtEntry(s)
           /\ shouldIgnore(RelPathAt(s), scans[s].allExcludePatterns, scans[s].isJavaProject))
          => \E i \in 1..Len(scans[s].allExcludePatterns) :
                PatternMatches(NormalizePath(RelPathAt(s)),
                               scans[s].allExcludePatterns[i], micromatch)
    /\ (artifact.written => artifact.excludedPatterns = AllExcludePatterns(config))

\* The characters of the entry names, in code-unit order.
CharOrder ==
    <<".", "/", "D", "S", "_", "a", "b", "c", "d", "e", "f", "g", "h", "i", "j", "k",
      "l", "m", "n", "o", "p", "q", "r", "s", "t", "u", "v", "w", "x", "y", "z">>

CharCode(c) == CHOOSE k \in 1..Len(CharOrder) : CharOrder[k] = c

\* a sorts before b, lexicographically by character.
LexLess(a, b) ==
    \E k \in 1..(Len(a) + 1) :
        /\ k <= Len(b)
        /\ SubSeq(a, 1, k - 1) = SubSeq(b, 1, k - 1)
        /\ (k = Len(a) + 1 \/ CharCode(a[k]) < CharCode(b[k]))

\* path.dirname(p), '' for an entry of the root.
DirName(p) ==
    IF \E j \in 1..Len(p) : p[j] = "/"
    THEN SubSeq(p, 1, (CHOOSE j \in 1..Len(p) :
                          p[j] = "/" /\ \A m \in (j + 1)..Len(p) : p[m] # "/") - 1)
    ELSE <<>>

\* C19: in the result of a finished walk the FileRecords of each directory are
\* in lexicographic order of their names, whatever the order in which the
\* directory was enumerated.
C19_LexicographicOrder ==
    \A s \in ScanIds :
        WalkDone(s) =>
            \A i, j \in 1..Len(scans[s].files) :
                (/\ i < j
                 /\ ~IsWarning(scans[s].files[i])
                 /\ ~IsWarning(scans[s].files[j])
                 /\ DirName(scans[s].files[i].path) = DirName(scans[s].files[j].path))
                => LexLess(scans[s].files[i].path, scans[s].files[j].path)

\* The fallback matcher as the rule kinds are described: a leading '*' (path
\* ends with the remainder), and then by the form of the rule: a trailing '*'
\* (path starts with the remainder or contains '/' + remainder), the directory
\* form, or else exact or plain (path contains '/' + rule or starts with
\* rule + '/').
FallbackByKind(path, rule) ==
    LET body == SubSeq(rule, 1, Len(rule) - 1)
    IN  \/ (rule # <<>> /\ Head(rule) = "*" /\ EndsWith(path, Tail(rule)))
        \/ /\ rule # <<>> /\ rule[Len(rule)] = "*"
           /\ (StartsWith(path, body) \/ Includes(path, <<"/">> \o body))
        \/ /\ rule # <<>> /\ rule[Len(rule)] = "/"
           /\ \/ path = body
              \/ StartsWith(path, body \o <<"/">>)
              \/ Includes(path, <<"/">> \o body \o <<"/">>)
        \/ /\ (rule = <<>> \/ rule[Len(rule)] \notin {"*", "/"})
           /\ \/ path = rule
              \/ Includes(path, <<"/">> \o rule)
              \/ StartsWith(path, rule \o <<"/">>)

\* The glob evaluator rejects some rule of the list of scan s.
HasRejectedRule(s) ==
    \E i \in 1..Len(scans[s].allExcludePatterns) :
        /\ scans[s].allExcludePatterns[i] # <<>>
        /\ MicromatchThrows(Trim(scans[s].allExcludePatterns[i]))

\* C20: with micromatch available and a rule that it rejects, shouldIgnore
\* answers as if that rule alone were evaluated by the fallback matcher and
\* every other rule by the glob evaluator, and the step of the walk that
\* evaluates the rules does not abort the scan.
C20_FaultIsolatedPerRule ==
    /\ [](\A s \in ScanIds :
            (scans[s].pc = "walk" /\ micromatch /\ HasRejectedRule(s)) =>
                \A p \in TreePaths(tree.children, <<>>) :
                    LET R == scans[s].allExcludePatterns
                        java == scans[s].isJavaProject
                    IN  shouldIgnore(p, R, java) =
                          (\/ BuiltInIgnores(p, java)
                           \/ \E i \in 1..Len(R) :
                                 /\ R[i] # <<>>
                                 /\ IF MicromatchThrows(Trim(R[i]))
                                    THEN FallbackByKind(p, Trim(R[i]))
                                    ELSE MicromatchIsMatch(p, Trim(R[i]))))
    /\ [][\A s \in ScanIds :
            (WalkStep(s) /\ micromatch /\ HasRejectedRule(s))
            => (~scans'[s].error /\ scans'[s].pc \in {"walk", "write"})]_vars

\* C20 witness: the rules are a blank rule, which micromatch rejects, and the
\* directory-form rule; the walk is inside node_modules (the glob evaluator did
\* not match the directory rule, which the fallback would have matched) and is
\* at node_modules/x.js, which the fallback evaluation of the blank rule ignores.
C20_Witness ==
    \E s \in ScanIds :
        /\ AtEntry(s)
        /\ micromatch
        /\ scans[s].allExcludePatterns = <<RULE_BLANK, RULE_NODE_MODULES>>
        /\ RelPathAt(s) = PathJoin(NODE_MODULES, X_JS)
        /\ FallbackMatch(NODE_MODULES, RULE_NODE_MODULES)
        /\ ~BuiltInIgnores(RelPathAt(s), scans[s].isJavaProject)
        /\ shouldIgnore(RelPathAt(s), scans[s].allExcludePatterns, scans[s].isJavaProject)


(***************************************************************************)
(* Properties of extractDependencies                                       *)
(***************************************************************************)
\* The lines whose text after trimming leading whitespace begins with one of
\* the language's keywords, trimmed, in first-seen order without duplicates.
SelectedAfterTrim(lines, fileExt) ==
    LET Selected(line) == RegexTest(DEPENDENCY_REGEX_MAP(fileExt), TrimStart(line))
        matching == SelectSeq(lines, Selected)
    IN  Unique([i \in 1..Len(matching) |-> Trim(matching[i])])

\* C21: for a language with a dependency pattern, extractDependencies returns
\* exactly the trimmed text of every line whose text after trimming leading
\* whitespace begins with one of the language's keywords, in first-seen order
\* with exact duplicates removed; an indented dependency line is selected like
\* an unindented one.
C21_SelectsAfterTrim ==
    (extraction.returned /\ DEPENDENCY_REGEX_MAP(extraction.fileExt) # {})
        => extraction.dependencies
             = SelectedAfterTrim(extraction.content, extraction.fileExt)

(***************************************************************************)
(* Properties of auto-scan                                                 *)
(***************************************************************************)
\* A change notification from outside the extension, or a command of the user.
ExternalStep == OnChange \/ ManualScan \/ ToggleAutoScan \/ Deactivate

Quiescent == ~isScanning /\ timers = {}

\* C22: with auto-scan enabled, once external change notifications (and
\* commands) stop, the system eventually reaches the state "no scan active and
\* no debounce timer pending" and stays there: the scan's own write of the
\* output file does not schedule a further scan.
C22_Quiesces == ([]<><<ExternalStep>>_vars) \/ <>[]Quiescent

==========================================================================
